---- MODULE Spec2Model ----
(***************************************************************************)
(* A model of the keyword search, constraint parser and constraint filter  *)
(* of src/agent/tools.py and of the search handler of src/app.py.          *)
(*                                                                         *)
(* A text is a sequence of characters, each a string that stands for one  *)
(* code point, so that lower-casing, tokenizing, substring tests, the two  *)
(* budget patterns and the lexicographic sorts are computed character by   *)
(* character as the code computes them.  An Optional value is <<>> (None)  *)
(* or <<v>>.  A score is kept in half points (the code's 0.5 is one unit). *)
(* The page of the handler is the sequence of the st calls that render     *)
(* the results.                                                            *)
(***************************************************************************)
EXTENDS Integers, Sequences, FiniteSets, TLC

VARIABLES mode, done, query, catalog, top_k, source, constraints, results,
          filtered, displayed, raised, notice, loaded

vars == <<mode, done, query, catalog, top_k, source, constraints, results,
          filtered, displayed, raised, notice, loaded>>

-----------------------------------------------------------------------------
(* Characters and texts *)

\* The characters of the model with their code points, in blocks of
\* consecutive code points: <<first code point, characters>>.  A character of
\* Latin-1 is the one-character string of itself; a character beyond Latin-1,
\* and a control character without an escape, is the string of its name
\* "U+hhhh".  The blocks hold ASCII and Latin-1, every character that \s
\* matches, the decimal digits of three scripts, and the two characters
\* beyond Latin-1 that str.lower() turns into ASCII letters.
CharBlocks ==
  << <<9, <<"\t", "\n", "U+000B", "\f", "\r">> >>,
     <<28, <<"U+001C", "U+001D", "U+001E", "U+001F">> >>,
     <<32, <<" ", "!", "\"", "#", "$", "%", "&", "'", "(", ")", "*", "+",
             ",", "-", ".", "/", "0", "1", "2", "3", "4", "5", "6", "7", "8",
             "9", ":", ";", "<", "=", ">", "?", "@", "A", "B", "C", "D", "E",
             "F", "G", "H", "I", "J", "K", "L", "M", "N", "O", "P", "Q", "R",
             "S", "T", "U", "V", "W", "X", "Y", "Z", "[", "\\", "]", "^",
             "_", "U+0060", "a", "b", "c", "d", "e", "f", "g", "h", "i", "j",
             "k", "l", "m", "n", "o", "p", "q", "r", "s", "t", "u", "v", "w",
             "x", "y", "z", "{", "|", "}", "~">> >>,
     <<133, <<"U+0085">> >>,
     <<160, <<" ", "¡", "¢", "£", "¤", "¥", "¦", "§", "¨", "©", "ª", "«", "¬",
             "­", "®", "¯", "°", "±", "²", "³", "´", "µ", "¶", "·", "¸", "¹",
             "º", "»", "¼", "½", "¾", "¿", "À", "Á", "Â", "Ã", "Ä", "Å", "Æ",
             "Ç", "È", "É", "Ê", "Ë", "Ì", "Í", "Î", "Ï", "Ð", "Ñ", "Ò", "Ó",
             "Ô", "Õ", "Ö", "×", "Ø", "Ù", "Ú", "Û", "Ü", "Ý", "Þ", "ß", "à",
             "á", "â", "ã", "ä", "å", "æ", "ç", "è", "é", "ê", "ë", "ì", "í",
             "î", "ï", "ð", "ñ", "ò", "ó", "ô", "õ", "ö", "÷", "ø", "ù", "ú",
             "û", "ü", "ý", "þ", "ÿ">> >>,
     <<304, <<"U+0130">> >>,
     <<775, <<"U+0307">> >>,
     <<1632, <<"U+0660", "U+0661", "U+0662", "U+0663", "U+0664", "U+0665",
             "U+0666", "U+0667", "U+0668", "U+0669">> >>,
     <<5760, <<"U+1680">> >>,
     <<8192, <<"U+2000", "U+2001", "U+2002", "U+2003", "U+2004", "U+2005",
             "U+2006", "U+2007", "U+2008", "U+2009", "U+200A">> >>,
     <<8232, <<"U+2028", "U+2029">> >>,
     <<8239, <<"U+202F">> >>,
     <<8287, <<"U+205F">> >>,
     <<8490, <<"U+212A">> >>,
     <<12288, <<"U+3000">> >>,
     <<65296, <<"U+FF10", "U+FF11", "U+FF12", "U+FF13", "U+FF14", "U+FF15",
             "U+FF16", "U+FF17", "U+FF18", "U+FF19">> >> >>

\* The code point of every character of the blocks.
CodePoints(blocks) ==
  [c \in UNION {{blocks[b][2][i] : i \in DOMAIN blocks[b][2]} :
                  b \in DOMAIN blocks} |->
     LET b == CHOOSE k \in DOMAIN blocks :
                \E i \in DOMAIN blocks[k][2] : blocks[k][2][i] = c
         i == CHOOSE k \in DOMAIN blocks[b][2] : blocks[b][2][k] = c
     IN  blocks[b][1] + i - 1]

\* ord(c)
Ord == CodePoints(CharBlocks)

CharSet == DOMAIN Ord

\* The inverse of a code point table.
Inverse(ord) ==
  [n \in {ord[c] : c \in DOMAIN ord} |-> CHOOSE c \in DOMAIN ord : ord[c] = n]

\* chr(n)
Chr == Inverse(Ord)

\* The characters with a code point among codes.
WithCode(ord, codes) == {c \in DOMAIN ord : ord[c] \in codes}

\* The characters str.lower() changes: A-Z, the capital letters of Latin-1
\* (all of U+00C0-U+00DE but the multiplication sign U+00D7), I WITH DOT
\* ABOVE (U+0130) and the KELVIN SIGN (U+212A).
UpperChars ==
  WithCode(Ord, (65..90) \cup (192..214) \cup (216..222) \cup {304, 8490})

\* [a-z] and [0-9] of the pattern of _tokenize: ASCII only.
LowerChars == WithCode(Ord, 97..122)
TokenDigits == WithCode(Ord, 48..57)

\* The decimal digits by the code point of their zero: ASCII, ARABIC-INDIC
\* and FULLWIDTH.
DigitZeros == {48, 1632, 65296}

\* The value of every decimal digit: its distance from the zero of its script.
ValuesOf(ord, zeros) ==
  [c \in WithCode(ord, UNION {z..(z + 9) : z \in zeros}) |->
     ord[c] - (CHOOSE z \in zeros : ord[c] \in z..(z + 9))]

\* int(c) of a decimal digit, as float() reads it.
DigitValue == ValuesOf(Ord, DigitZeros)

\* \d of a str pattern: every decimal digit (the characters of DigitValue).
DigitChars ==
  {"0", "1", "2", "3", "4", "5", "6", "7", "8", "9", "U+0660", "U+0661",
   "U+0662", "U+0663", "U+0664", "U+0665", "U+0666", "U+0667", "U+0668",
   "U+0669", "U+FF10", "U+FF11", "U+FF12", "U+FF13", "U+FF14", "U+FF15",
   "U+FF16", "U+FF17", "U+FF18", "U+FF19"}

\* \s of a str pattern: the characters of str.isspace(), U+0009-U+000D,
\* U+001C-U+0020, U+0085, U+00A0 (NO-BREAK SPACE, the character after
\* "U+0085"), U+1680, U+2000-U+200A, U+2028, U+2029, U+202F, U+205F, U+3000.
SpaceChars ==
  {"\t", "\n", "U+000B", "\f", "\r", "U+001C", "U+001D", "U+001E", "U+001F",
   " ", "U+0085", " ", "U+1680", "U+2000", "U+2001", "U+2002", "U+2003",
   "U+2004", "U+2005", "U+2006", "U+2007", "U+2008", "U+2009", "U+200A",
   "U+2028", "U+2029", "U+202F", "U+205F", "U+3000"}

\* str.lower() character by character: a capital letter becomes the letter
\* 32 code points on, I WITH DOT ABOVE becomes i and COMBINING DOT ABOVE
\* (U+0307), the KELVIN SIGN becomes k, every other character stays.
LowerOf(ord, chr, upper) ==
  [c \in DOMAIN ord |->
     IF c \notin upper THEN <<c>>
     ELSE IF ord[c] = 304 THEN <<"i", chr[775]>>
     ELSE IF ord[c] = 8490 THEN <<"k">>
     ELSE <<chr[ord[c] + 32]>>]

\* str.lower() on one character: the text it becomes.
LowerChar == LowerOf(Ord, Chr, UpperChars)

\* str.lower()
RECURSIVE Lower(_)
Lower(text) ==
  IF text = <<>> THEN <<>> ELSE LowerChar[Head(text)] \o Lower(Tail(text))

\* Python's < on str: lexicographic by code point, a proper prefix first.
RECURSIVE TextLess(_, _)
TextLess(a, b) ==
  IF b = <<>> THEN FALSE
  ELSE IF a = <<>> THEN TRUE
  ELSE IF Ord[Head(a)] # Ord[Head(b)] THEN Ord[Head(a)] < Ord[Head(b)]
  ELSE TextLess(Tail(a), Tail(b))

\* sorted(set(...)) of texts: ascending, duplicate-free.
RECURSIVE SortedTexts(_)
SortedTexts(S) ==
  IF S = {} THEN <<>>
  ELSE LET m == CHOOSE x \in S : \A y \in S \ {x} : TextLess(x, y)
       IN  <<m>> \o SortedTexts(S \ {m})

\* The elements of a sequence, as a set.
Range(seq) == {seq[i] : i \in DOMAIN seq}

\* needle in text (str.__contains__)
StartsAt(text, i, w) ==
  /\ i >= 1
  /\ i + Len(w) - 1 <= Len(text)
  /\ SubSeq(text, i, i + Len(w) - 1) = w

Contains(text, w) == \E i \in 1..(Len(text) + 1) : StartsAt(text, i, w)

\* re.findall of one character class repeated (r"[...]+"): the maximal runs.
RECURSIVE FindRuns(_, _, _, _, _)
FindRuns(text, cls, i, cur, acc) ==
  IF i > Len(text) THEN (IF cur = <<>> THEN acc ELSE Append(acc, cur))
  ELSE IF text[i] \in cls THEN FindRuns(text, cls, i + 1, Append(cur, text[i]), acc)
  ELSE FindRuns(text, cls, i + 1, <<>>, IF cur = <<>> THEN acc ELSE Append(acc, cur))

Findall(text, cls) == FindRuns(text, cls, 1, <<>>, <<>>)

\* " ".join(parts)
RECURSIVE Join(_)
Join(parts) ==
  IF parts = <<>> THEN <<>>
  ELSE IF Len(parts) = 1 THEN parts[1]
  ELSE parts[1] \o <<" ">> \o Join(Tail(parts))

\* float() of a digit string.
RECURSIVE ToNumber(_)
ToNumber(digits) ==
  IF digits = <<>> THEN 0
  ELSE 10 * ToNumber(SubSeq(digits, 1, Len(digits) - 1))
       + DigitValue[digits[Len(digits)]]

\* Optional values.
None == <<>>
Some(v) == <<v>>
IsNone(o) == o = <<>>
Val(o) == o[1]

-----------------------------------------------------------------------------
(* _tokenize *)

_tokenize(text) == Findall(Lower(text), LowerChars \cup TokenDigits)

-----------------------------------------------------------------------------
(* parse_constraints *)

\* The alternations of the two budget patterns, in the order written.
budget_before == << <<"u", "n", "d", "e", "r">>,
                    <<"b", "e", "l", "o", "w">>,
                    <<"l", "e", "s", "s", " ", "t", "h", "a", "n">> >>
budget_after == << <<"m", "a", "x">>,
                   <<"m", "a", "x", "i", "m", "u", "m">>,
                   <<"o", "r", " ", "l", "e", "s", "s">> >>

\* \s* from position i: the position after the white space.
RECURSIVE SkipSpaces(_, _)
SkipSpaces(q, i) ==
  IF i <= Len(q) /\ q[i] \in SpaceChars THEN SkipSpaces(q, i + 1) ELSE i

\* \$? from position i.
SkipDollar(q, i) == IF i <= Len(q) /\ q[i] = "$" THEN i + 1 ELSE i

\* \d+ from position i: the position after the digits (i when there is none).
RECURSIVE SkipDigits(_, _)
SkipDigits(q, i) ==
  IF i <= Len(q) /\ q[i] \in DigitChars THEN SkipDigits(q, i + 1) ELSE i

\* (a|b|c) at position i: the position after the first alternative that
\* matches there, 0 when none does.
AltEnd(q, i, alts) ==
  LET hits == {k \in DOMAIN alts : StartsAt(q, i, alts[k])}
  IN  IF hits = {} THEN 0
      ELSE i + Len(alts[CHOOSE k \in hits : \A j \in hits : k <= j])

\* r"(under|below|less than)\s*\$?\s*(\d+)" anchored at i: the position
\* after the match, 0 when it does not match there.
BeforeEnd(q, i) ==
  LET a == AltEnd(q, i, budget_before)
      b == SkipSpaces(q, SkipDollar(q, SkipSpaces(q, a)))
      c == SkipDigits(q, b)
  IN  IF a # 0 /\ c > b THEN c ELSE 0

\* r"\$?\s*(\d+)\s*(max|maximum|or less)" anchored at i.
AfterEnd(q, i) ==
  LET b == SkipSpaces(q, SkipDollar(q, i))
      c == SkipDigits(q, b)
  IN  IF c > b THEN AltEnd(q, SkipSpaces(q, c), budget_after) ELSE 0

\* A variant of budget_patterns: the two patterns in the other order.
budget_patterns_Swapped == <<"after", "before">>

budget_patterns == <<"before", "after">>

PatEnd(pat, q, i) == IF pat = "before" THEN BeforeEnd(q, i) ELSE AfterEnd(q, i)

\* re.search(pat, q): None, or m.group(0) of the leftmost match.
re_search(pat, q) ==
  LET starts == {i \in 1..Len(q) : PatEnd(pat, q, i) # 0}
  IN  IF starts = {} THEN None
      ELSE LET i == CHOOSE s \in starts : \A t \in starts : s <= t
           IN  Some(SubSeq(q, i, PatEnd(pat, q, i) - 1))

\* The loop over budget_patterns from pattern k on, with its break.
RECURSIVE BudgetFrom(_, _)
BudgetFrom(q, k) ==
  IF k > Len(budget_patterns) THEN None
  ELSE LET m == re_search(budget_patterns[k], q)
           nums == IF IsNone(m) THEN <<>> ELSE Findall(Val(m), DigitChars)
       IN  IF nums # <<>> THEN Some(ToNumber(nums[Len(nums)]))
           ELSE BudgetFrom(q, k + 1)

known_colors ==
  << <<"b", "l", "a", "c", "k">>,
     <<"w", "h", "i", "t", "e">>,
     <<"i", "v", "o", "r", "y">>,
     <<"c", "r", "e", "a", "m">>,
     <<"b", "e", "i", "g", "e">>,
     <<"c", "a", "m", "e", "l">>,
     <<"b", "r", "o", "w", "n">>,
     <<"g", "r", "a", "y">>,
     <<"g", "r", "e", "y">>,
     <<"c", "h", "a", "r", "c", "o", "a", "l">>,
     <<"n", "a", "v", "y">>,
     <<"b", "l", "u", "e">>,
     <<"l", "i", "g", "h", "t", " ", "b", "l", "u", "e">>,
     <<"g", "r", "e", "e", "n">>,
     <<"e", "m", "e", "r", "a", "l", "d">>,
     <<"b", "u", "r", "g", "u", "n", "d", "y">>,
     <<"r", "e", "d">>,
     <<"p", "i", "n", "k">>,
     <<"p", "u", "r", "p", "l", "e">>,
     <<"s", "i", "l", "v", "e", "r">>,
     <<"g", "o", "l", "d">> >>

\* category_map as <<key, label>> pairs, in the order written.
category_map ==
  << << <<"d", "r", "e", "s", "s">>, <<"d", "r", "e", "s", "s">> >>,
     << <<"g", "o", "w", "n">>, <<"d", "r", "e", "s", "s">> >>,
     << <<"s", "l", "i", "p", " ", "d", "r", "e", "s", "s">>, <<"d", "r", "e", "s", "s">> >>,
     << <<"h", "e", "e", "l", "s">>, <<"s", "h", "o", "e", "s">> >>,
     << <<"b", "o", "o", "t", "s">>, <<"s", "h", "o", "e", "s">> >>,
     << <<"s", "h", "o", "e", "s">>, <<"s", "h", "o", "e", "s">> >>,
     << <<"s", "a", "n", "d", "a", "l", "s">>, <<"s", "h", "o", "e", "s">> >>,
     << <<"c", "l", "u", "t", "c", "h">>, <<"b", "a", "g">> >>,
     << <<"b", "a", "g">>, <<"b", "a", "g">> >>,
     << <<"p", "u", "r", "s", "e">>, <<"b", "a", "g">> >>,
     << <<"c", "o", "a", "t">>, <<"o", "u", "t", "e", "r", "w", "e", "a", "r">> >>,
     << <<"j", "a", "c", "k", "e", "t">>, <<"o", "u", "t", "e", "r", "w", "e", "a", "r">> >>,
     << <<"b", "l", "o", "u", "s", "e">>, <<"t", "o", "p">> >>,
     << <<"t", "o", "p">>, <<"t", "o", "p">> >>,
     << <<"t", "r", "o", "u", "s", "e", "r", "s">>, <<"b", "o", "t", "t", "o", "m">> >>,
     << <<"p", "a", "n", "t", "s">>, <<"b", "o", "t", "t", "o", "m">> >>,
     << <<"e", "a", "r", "r", "i", "n", "g", "s">>, <<"a", "c", "c", "e", "s", "s", "o", "r", "y">> >>,
     << <<"t", "i", "g", "h", "t", "s">>, <<"a", "c", "c", "e", "s", "s", "o", "r", "y">> >>,
     << <<"a", "c", "c", "e", "s", "s", "o", "r", "i", "e", "s">>, <<"a", "c", "c", "e", "s", "s", "o", "r", "y">> >> >>

\* A variant of FoundColors: a color counts only as a whole word of q.
FoundColors_Words(q) ==
  SelectSeq(known_colors,
            LAMBDA c : c \in Range(Findall(q, LowerChars \cup TokenDigits)))

\* found_colors: the known colors found in q, in list order.
FoundColors(q) == SelectSeq(known_colors, LAMBDA c : Contains(q, c))

\* sorted(category_map.keys(), key=len, reverse=True): a stable sort, so
\* keys of one length keep their order in the map.
RECURSIVE KeysOfLength(_, _)
KeysOfLength(n, k) ==
  IF k > Len(category_map) THEN <<>>
  ELSE (IF Len(category_map[k][1]) = n THEN <<category_map[k]>> ELSE <<>>)
       \o KeysOfLength(n, k + 1)

RECURSIVE KeysFromLength(_)
KeysFromLength(n) ==
  IF n = 0 THEN <<>> ELSE KeysOfLength(n, 1) \o KeysFromLength(n - 1)

LongestKey == CHOOSE n \in {Len(category_map[k][1]) : k \in DOMAIN category_map} :
                \A k \in DOMAIN category_map : Len(category_map[k][1]) <= n

KeysLongestFirst == KeysFromLength(LongestKey)

\* found_categories: the label of every key found in q, longest key first.
FoundCategories(q) ==
  LET hits == SelectSeq(KeysLongestFirst, LAMBDA e : Contains(q, e[1]))
  IN  [i \in DOMAIN hits |-> hits[i][2]]

\* sorted(set(found)) if found else None
SortedOrNone(found) ==
  IF found = <<>> THEN None ELSE Some(SortedTexts(Range(found)))

parse_constraints(text) ==
  LET q == Lower(text)
  IN  [budget_max |-> BudgetFrom(q, 1),
       colors     |-> SortedOrNone(FoundColors(q)),
       categories |-> SortedOrNone(FoundCategories(q))]

-----------------------------------------------------------------------------
(* filter_results *)

\* dict.get(key, default)
Get(item, key, default) == IF key \in DOMAIN item THEN item[key] ELSE default

\* 10**9, the price of an item without price_usd.
MissingPrice == 1000000000

\* "if constraints.categories:" - neither None nor an empty list.
Truthy(o) == ~IsNone(o) /\ Val(o) # <<>>

LowerAll(texts) == {Lower(t) : t \in Range(texts)}

\* A variant of Keeps: the category is compared without regard to case.
Keeps_AnyCase(item, c) ==
  /\ (~IsNone(c.budget_max) =>
        ~(Get(item, "price_usd", MissingPrice) > Val(c.budget_max)))
  /\ (Truthy(c.categories) =>
        /\ "category" \in DOMAIN item
        /\ Lower(item["category"]) \in LowerAll(Val(c.categories)))
  /\ (Truthy(c.colors) =>
        LowerAll(Get(item, "colors", <<>>)) \cap LowerAll(Val(c.colors)) # {})

\* A variant of Keeps: the price is compared with a budget even when none is
\* set (the default price against itself less one).
Keeps_AlwaysBudget(item, c) ==
  /\ ~(Get(item, "price_usd", MissingPrice)
         > (IF IsNone(c.budget_max) THEN MissingPrice - 1 ELSE Val(c.budget_max)))
  /\ (Truthy(c.categories) =>
        /\ "category" \in DOMAIN item
        /\ item["category"] \in Range(Val(c.categories)))
  /\ (Truthy(c.colors) =>
        LowerAll(Get(item, "colors", <<>>)) \cap LowerAll(Val(c.colors)) # {})

\* The body of the loop of filter_results: TRUE when r is appended.
Keeps(item, c) ==
  /\ (~IsNone(c.budget_max) =>
        ~(Get(item, "price_usd", MissingPrice) > Val(c.budget_max)))
  /\ (Truthy(c.categories) =>
        /\ "category" \in DOMAIN item
        /\ item["category"] \in Range(Val(c.categories)))
  /\ (Truthy(c.colors) =>
        LowerAll(Get(item, "colors", <<>>)) \cap LowerAll(Val(c.colors)) # {})

filter_results(rs, c) == SelectSeq(rs, LAMBDA r : Keeps(r.item, c))

-----------------------------------------------------------------------------
(* load_catalog and search_catalog *)

\* The outcome of a call: the exception raised ("" for none) and the value.
Returned(v) == [raised |-> "", value |-> v]
Raised(e) == [raised |-> e, value |-> <<>>]

\* load_catalog() on the external source.
load_catalog(src) ==
  IF src.status = "ok" THEN Returned(src.content)
  ELSE IF src.status = "missing" THEN Raised("FileNotFoundError")
  ELSE Raised("JSONDecodeError")

\* The texts joined into the haystack of an item.
Fields(item) ==
  <<Get(item, "title", <<>>), Get(item, "description", <<>>),
    Get(item, "brand", <<>>), Get(item, "category", <<>>)>>
  \o Get(item, "style_tags", <<>>) \o Get(item, "colors", <<>>)

\* h_tokens = set(_tokenize(haystack))
HTokens(item) == Range(_tokenize(Lower(Join(Fields(item)))))

\* title_tokens = set(_tokenize(item.get("title", "")))
TitleTokens(item) == Range(_tokenize(Get(item, "title", <<>>)))

\* [t for t in q_tokens if t in tokens]
TokensIn(q_tokens, tokens) == SelectSeq(q_tokens, LAMBDA t : t \in tokens)

\* title_matches = sum(1 for t in q_tokens if t in title_tokens)
TitleMatches(q_tokens, title_tokens) == Len(TokensIn(q_tokens, title_tokens))

\* score, in half points: float(len(set(matched))) + 0.5 * float(title_matches)
Score(matched, title_matches) == 2 * Cardinality(Range(matched)) + title_matches

\* A variant of MatchedTerms: the matched tokens as they stand in the query.
MatchedTerms_Unsorted(matched) == matched

\* matched_terms = sorted(set(matched))
MatchedTerms(matched) == SortedTexts(Range(matched))

\* One pass of the loop over the catalog: nothing when no query token
\* matches, else the SearchResult of the item at position i; ref is the
\* identity of the item object (its place in the catalog).
ScoreItem(q_tokens, cat, i) ==
  LET item == cat[i]
      h_tokens == HTokens(item)
      matched == TokensIn(q_tokens, h_tokens)
      title_tokens == TitleTokens(item)
  IN  IF matched = <<>> THEN <<>>
      ELSE <<[ref |-> i, item |-> item,
              score |-> Score(matched, TitleMatches(q_tokens, title_tokens)),
              matched_terms |-> MatchedTerms(matched)]>>

\* The loop over the catalog from position i on.
RECURSIVE ScanFrom(_, _, _)
ScanFrom(q_tokens, cat, i) ==
  IF i > Len(cat) THEN <<>>
  ELSE ScoreItem(q_tokens, cat, i) \o ScanFrom(q_tokens, cat, i + 1)

\* A variant of _sort_key: the price without its minus sign.
_sort_key_PricePlus(r) ==
  <<r.score, Get(r.item, "rating", 0), Get(r.item, "price_usd", MissingPrice)>>

_sort_key(r) ==
  <<r.score, Get(r.item, "rating", 0), 0 - Get(r.item, "price_usd", MissingPrice)>>

\* Python's < on tuples of numbers.
RECURSIVE TupleLess(_, _)
TupleLess(a, b) ==
  IF b = <<>> THEN FALSE
  ELSE IF a = <<>> THEN TRUE
  ELSE IF Head(a) # Head(b) THEN Head(a) < Head(b)
  ELSE TupleLess(Tail(a), Tail(b))

\* r put into a list sorted by descending key, behind every element whose
\* key is not smaller.
RECURSIVE InsertDesc(_, _)
InsertDesc(sorted, r) ==
  IF sorted = <<>> THEN <<r>>
  ELSE IF TupleLess(_sort_key(Head(sorted)), _sort_key(r))
       THEN <<r>> \o sorted
       ELSE <<Head(sorted)>> \o InsertDesc(Tail(sorted), r)

\* results.sort(key=_sort_key, reverse=True): stable.
RECURSIVE SortDesc(_)
SortDesc(rs) ==
  IF rs = <<>> THEN <<>>
  ELSE InsertDesc(SortDesc(SubSeq(rs, 1, Len(rs) - 1)), rs[Len(rs)])

\* results after the sort, before the slice.
Ranked(q_tokens, cat) == SortDesc(ScanFrom(q_tokens, cat, 1))

\* rs[:k]
Slice(rs, k) ==
  LET n == IF k >= 0 THEN (IF k < Len(rs) THEN k ELSE Len(rs))
           ELSE (IF Len(rs) + k > 0 THEN Len(rs) + k ELSE 0)
  IN  SubSeq(rs, 1, n)

\* search_catalog(query, catalog, top_k) with the external source src:
\* the outcome, and whether the external source was read.
search_catalog(text, cat, k, src) ==
  LET got == IF IsNone(cat) THEN load_catalog(src) ELSE Returned(Val(cat))
      q_tokens == _tokenize(text)
      out == IF got.raised # "" THEN Raised(got.raised)
             ELSE IF q_tokens = <<>> THEN Returned(<<>>)
             ELSE Returned(Slice(Ranked(q_tokens, got.value), k))
  IN  [raised |-> out.raised, value |-> out.value, loaded |-> IsNone(cat)]

-----------------------------------------------------------------------------
(* The "Search catalog" handler of app.py *)

\* The bounds of the result-count slider.
SliderMin == 3
SliderMax == 12

\* The st calls that render one result, in the order made, each with the
\* item keys its argument subscripts.
RenderCalls ==
  << <<"container", {}>>,
     <<"markdown", {"title", "brand", "price_usd"}>>,
     <<"caption", {"category"}>>,
     <<"write", {"description"}>>,
     <<"write_matched", {}>> >>

\* The calls made for one result: all of them, or those before the first
\* whose argument subscripts a key the item lacks (KeyError).
RECURSIVE CallsFrom(_, _)
CallsFrom(res, n) ==
  IF n > Len(RenderCalls) \/ ~(RenderCalls[n][2] \subseteq DOMAIN res.item)
  THEN <<>>
  ELSE <<[call |-> RenderCalls[n][1], ref |-> res.ref]>> \o CallsFrom(res, n + 1)

\* The loop over filtered: the calls made until it ends or one raises.
RECURSIVE RenderedFrom(_)
RenderedFrom(rs) ==
  IF rs = <<>> THEN <<>>
  ELSE LET calls == CallsFrom(Head(rs), 1)
       IN  IF Len(calls) < Len(RenderCalls) THEN calls
           ELSE calls \o RenderedFrom(Tail(rs))

\* The else branch: the subheader, then the loop.  ref is the catalog
\* position of the result a call renders, 0 for the subheader.
Rendered(rs) ==
  IF rs = <<>> THEN <<>>
  ELSE <<[call |-> "subheader", ref |-> 0]>> \o RenderedFrom(rs)

\* The rendering of rs raised KeyError.
RenderFails(rs) ==
  \E i \in DOMAIN rs : \E n \in DOMAIN RenderCalls :
     ~(RenderCalls[n][2] \subseteq DOMAIN rs[i].item)

\* A variant of SearchFlow: the whole ranking is filtered and then cut to k.
SearchFlow_FilterFirst(text, k, src) ==
  LET c == parse_constraints(text)
      found == search_catalog(text, None, Len(src.content), src)
      kept == IF found.raised # "" THEN <<>>
              ELSE Slice(filter_results(found.value, c), k)
      shown == Rendered(kept)
  IN  [constraints |-> c,
       results |-> found.value,
       filtered |-> kept,
       notice |-> (found.raised = "" /\ kept = <<>>),
       displayed |-> shown,
       raised |-> IF found.raised # "" THEN found.raised
                  ELSE IF RenderFails(kept) THEN "KeyError" ELSE ""]

\* The handler: parse, search with the slider's top_k, filter, display.
SearchFlow(text, k, src) ==
  LET c == parse_constraints(text)
      found == search_catalog(text, None, k, src)
      kept == IF found.raised # "" THEN <<>> ELSE filter_results(found.value, c)
      shown == Rendered(kept)
  IN  [constraints |-> c,
       results |-> found.value,
       filtered |-> kept,
       notice |-> (found.raised = "" /\ kept = <<>>),
       displayed |-> shown,
       raised |-> IF found.raised # "" THEN found.raised
                  ELSE IF RenderFails(kept) THEN "KeyError" ELSE ""]

-----------------------------------------------------------------------------
(* Inputs *)

\* Catalog entries: two that tie on score and rating and differ in price, one
\* without price_usd and with a capitalised category, one without rating and
\* style_tags and with a color in non-ASCII capitals, one without category
\* and colors.
Inventory ==
  << [title |-> <<"R", "e", "d", " ", "D", "r", "e", "s", "s">>, description |-> <<"s", "i", "l", "k">>, brand |-> <<"Z", "e", "d">>,
      category |-> <<"d", "r", "e", "s", "s">>, style_tags |-> <<<<"w", "e", "d", "d", "i", "n", "g">>>>, colors |-> <<<<"R", "e", "d">>>>,
      price_usd |-> 150, rating |-> 5],
     [title |-> <<"R", "e", "d", " ", "D", "r", "e", "s", "s">>, description |-> <<"s", "i", "l", "k">>, brand |-> <<"Z", "e", "d">>,
      category |-> <<"d", "r", "e", "s", "s">>, style_tags |-> <<<<"w", "e", "d", "d", "i", "n", "g">>>>,
      colors |-> <<<<"B", "l", "u", "e">>, <<"R", "e", "d">>>>, price_usd |-> 200, rating |-> 5],
     [title |-> <<"R", "e", "d", " ", "D", "r", "e", "s", "s">>, description |-> <<"s", "i", "l", "k">>, brand |-> <<"Z", "e", "d">>,
      category |-> <<"D", "r", "e", "s", "s">>, style_tags |-> <<<<"w", "e", "d", "d", "i", "n", "g">>>>, colors |-> <<<<"R", "e", "d">>>>,
      rating |-> 5],
     [title |-> <<"G", "o", "w", "n">>, description |-> <<"r", "e", "d", " ", "d", "r", "e", "s", "s">>, brand |-> <<"Z", "e", "d">>,
      category |-> <<"d", "r", "e", "s", "s">>, colors |-> <<<<"R", "E", "D">>, <<"R", "O", "S", "É">>>>, price_usd |-> 20],
     [title |-> <<"B", "l", "a", "c", "k", " ", "B", "o", "o", "t", "s">>, description |-> <<"w", "i", "n", "t", "e", "r">>, brand |-> <<"Z", "e", "d">>,
      style_tags |-> <<<<"g", "u", "e", "s", "t">>>>, price_usd |-> 20, rating |-> 4] >>

\* The longest catalog.
MaxCatalog == 4

\* The sequences without repetition of at most n elements of S.
RECURSIVE Arrangements(_, _)
Arrangements(S, n) ==
  IF n = 0 THEN {<<>>}
  ELSE {<<>>} \cup
       UNION {{<<x>> \o t : t \in Arrangements(S \ {x}, n - 1)} : x \in S}

Catalogs ==
  {[i \in DOMAIN a |-> Inventory[a[i]]] :
     a \in Arrangements(DOMAIN Inventory, MaxCatalog)}

\* The external catalog source: present with a content, missing, malformed.
Present(cat) == [status |-> "ok", content |-> cat]
Missing == [status |-> "missing", content |-> <<>>]
Malformed == [status |-> "malformed", content |-> <<>>]

\* The largest top_k of a direct call, and the smallest, negated.
MaxTopK == 3

TopKs == (0 - MaxTopK)..MaxTopK

\* top_k: int = 8
DefaultTopK == 8

\* The slider's values, cut one above the longest catalog: a larger top_k
\* slices no catalog of the model.
SliderValues == {k \in SliderMin..SliderMax : k <= MaxCatalog + 1}

\* The query of the spec's example and the default of the text input.
ExampleQuery ==
  <<"w", "i", "n", "t", "e", "r", " ", "w", "e", "d", "d", "i", "n", "g", " ", "g", "u", "e", "s", "t", " ", "d", "r", "e", "s", "s", " ", "u", "n", "d", "e", "r", " ", "$", "1", "5", "0">>

SearchQueries ==
  { <<>>, <<"!">>, <<"r", "e", "d", " ", "d", "r", "e", "s", "s">>, <<"d", "r", "e", "s", "s", " ", "r", "e", "d", " ", "d", "r", "e", "s", "s">>, <<"z", "e", "d">>, <<"z", "z", "z">>, <<"R", "E", "D", " ", "D", "R", "E", "S", "S", "!">>,
    ExampleQuery, <<"d", "r", "e", "s", "s", " ", "g", "u", "e", "s", "t">> }

AppQueries ==
  { <<>>, <<"r", "e", "d", " ", "d", "r", "e", "s", "s", " ", "u", "n", "d", "e", "r", " ", "$", "1", "5", "0">>, <<"d", "r", "e", "s", "s", " ", "d", "r", "e", "s", "s">>, <<"z", "e", "d">>, <<"z", "z", "z">>, ExampleQuery,
    <<"b", "l", "a", "c", "k", " ", "b", "o", "o", "t", "s", " ", "$", "2", "0", " ", "m", "a", "x">> }

\* The phrases the parser's queries are made of; the last has a tab and a
\* newline for \s and ARABIC-INDIC digits for \d.
Phrases ==
  << <<"u", "n", "d", "e", "r", " ", "$", "1", "0", " ">>, <<"$", "2", "0", " ", "m", "a", "x", " ">>, <<"l", "e", "s", "s", " ", "t", "h", "a", "n", " ", "1", "5", "0", " ">>, <<"3", "0", " ", "o", "r", " ", "l", "e", "s", "s", " ">>, <<"R", "e", "d", " ">>, <<"l", "i", "g", "h", "t", " ", "b", "l", "u", "e", " ">>,
     <<"s", "l", "i", "p", " ", "d", "r", "e", "s", "s", " ">>, <<"B", "o", "o", "t", "s", " ">>, <<"b", "o", "r", "e", "d", " ">>, <<"s", "t", "o", "p">>,
     <<"b", "e", "l", "o", "w", "\t", "U+0663", "U+0660", "\n">> >>

\* The most phrases in one query.
MaxPhrases == 2

RECURSIVE PhraseTexts(_)
PhraseTexts(n) ==
  IF n = 0 THEN {<<>>}
  ELSE {<<>>} \cup
       {Phrases[p] \o t : p \in DOMAIN Phrases, t \in PhraseTexts(n - 1)}

ParseQueries == PhraseTexts(MaxPhrases) \cup {ExampleQuery}

NoConstraints == [budget_max |-> None, colors |-> None, categories |-> None]

\* Constraints values: every field unset or a non-empty list.
ConstraintValues ==
  [budget_max : {None, Some(20), Some(150)},
   colors     : {None, Some(<<<<"r", "e", "d">>>>), Some(<<<<"B", "L", "U", "E">>, <<"r", "o", "s", "é">>>>)},
   categories : {None, Some(<<<<"d", "r", "e", "s", "s">>>>), Some(<<<<"s", "h", "o", "e", "s">>, <<"t", "o", "p">>>>)}]

\* Result lists: what search_catalog returns for the search queries.
ResultLists ==
  {search_catalog(q, Some(cat), Len(cat), Missing).value :
     q \in {<<"r", "e", "d", " ", "d", "r", "e", "s", "s">>, <<"z", "e", "d">>, <<"d", "r", "e", "s", "s", " ", "g", "u", "e", "s", "t">>}, cat \in Catalogs}

-----------------------------------------------------------------------------
(* The state machine: one call of an entry point on inputs drawn from the  *)
(* sets above.                                                             *)

Idle(m) ==
  /\ mode = m
  /\ done = FALSE
  /\ filtered = <<>>
  /\ displayed = <<>>
  /\ raised = ""
  /\ notice = FALSE
  /\ loaded = FALSE

InitParse ==
  /\ Idle("parse")
  /\ query \in ParseQueries
  /\ catalog = None /\ source = Missing /\ top_k = DefaultTopK
  /\ constraints = NoConstraints /\ results = <<>>

InitSearch ==
  /\ Idle("search")
  /\ query \in SearchQueries
  /\ top_k \in TopKs
  /\ \E cat \in Catalogs :
       \/ catalog = Some(cat) /\ source \in {Present(cat), Missing}
       \/ catalog = None /\ source \in {Present(cat), Missing, Malformed}
  /\ constraints = NoConstraints /\ results = <<>>

InitFilter ==
  /\ Idle("filter")
  /\ results \in ResultLists
  /\ constraints \in ConstraintValues
  /\ query = <<>> /\ catalog = None /\ source = Missing /\ top_k = DefaultTopK

InitApp ==
  /\ Idle("app")
  /\ query \in AppQueries
  /\ top_k \in SliderValues
  /\ source \in {Present(cat) : cat \in Catalogs} \cup {Missing, Malformed}
  /\ catalog = None /\ constraints = NoConstraints /\ results = <<>>

\* parse_constraints(query)
ParseConstraints ==
  /\ mode = "parse" /\ ~done
  /\ constraints' = parse_constraints(query)
  /\ done' = TRUE
  /\ UNCHANGED <<mode, query, catalog, top_k, source, results, filtered,
                 displayed, raised, notice, loaded>>

\* search_catalog(query, catalog, top_k)
SearchCatalog ==
  /\ mode = "search" /\ ~done
  /\ \E out \in {search_catalog(query, catalog, top_k, source)} :
         /\ results' = out.value
         /\ raised' = out.raised
         /\ loaded' = out.loaded
  /\ done' = TRUE
  /\ UNCHANGED <<mode, query, catalog, top_k, source, constraints, filtered,
                 displayed, notice>>

\* filter_results(results, constraints)
FilterResults ==
  /\ mode = "filter" /\ ~done
  /\ filtered' = filter_results(results, constraints)
  /\ done' = TRUE
  /\ UNCHANGED <<mode, query, catalog, top_k, source, constraints, results,
                 displayed, raised, notice, loaded>>

\* A press of "Search catalog".
SearchButton ==
  /\ mode = "app" /\ ~done
  /\ \E out \in {SearchFlow(query, top_k, source)} :
         /\ constraints' = out.constraints
         /\ results' = out.results
         /\ filtered' = out.filtered
         /\ displayed' = out.displayed
         /\ notice' = out.notice
         /\ raised' = out.raised
  /\ loaded' = TRUE
  /\ done' = TRUE
  /\ UNCHANGED <<mode, query, catalog, top_k, source>>

Init == InitParse \/ InitSearch \/ InitFilter \/ InitApp

Next == ParseConstraints \/ SearchCatalog \/ FilterResults \/ SearchButton

Spec == Init /\ [][Next]_vars

SpecParse == InitParse /\ [][ParseConstraints]_vars

SpecSearch == InitSearch /\ [][SearchCatalog]_vars

SpecFilter == InitFilter /\ [][FilterResults]_vars

SpecApp == InitApp /\ [][SearchButton]_vars

-----------------------------------------------------------------------------
(* What the claims speak of *)

\* The catalog a call scans: the argument, else the content of the source.
Scanned == IF IsNone(catalog) THEN source.content ELSE Val(catalog)

\* a is b with some elements left out, the order kept.
RECURSIVE IsSubsequence(_, _)
IsSubsequence(a, b) ==
  IF a = <<>> THEN TRUE
  ELSE IF b = <<>> THEN FALSE
  ELSE IF Head(a) = Head(b) THEN IsSubsequence(Tail(a), Tail(b))
  ELSE IsSubsequence(a, Tail(b))

\* The item meets every set constraint of c, as section 4.4 words them.
WithinBudget(item, c) ==
  IsNone(c.budget_max) \/
    ("price_usd" \in DOMAIN item /\ item["price_usd"] <= Val(c.budget_max))

InCategories(item, c) ==
  IsNone(c.categories) \/
    ("category" \in DOMAIN item /\
       \E k \in DOMAIN Val(c.categories) : Val(c.categories)[k] = item["category"])

InColors(item, c) ==
  IsNone(c.colors) \/
    ("colors" \in DOMAIN item /\
       \E i \in DOMAIN item["colors"], k \in DOMAIN Val(c.colors) :
          Lower(item["colors"][i]) = Lower(Val(c.colors)[k]))

Meets(item, c) == WithinBudget(item, c) /\ InCategories(item, c) /\ InColors(item, c)

\* The tokens of the searchable fields of an item, field by field.
SearchableTokens(item) ==
  UNION ({Range(_tokenize(item[f])) :
            f \in {"title", "description", "brand", "category"} \cap DOMAIN item}
         \cup UNION {{Range(_tokenize(item[f][i])) : i \in DOMAIN item[f]} :
                        f \in {"style_tags", "colors"} \cap DOMAIN item})

\* A text list in strictly ascending order.
StrictlyAscending(texts) ==
  \A i \in 1..(Len(texts) - 1) : TextLess(texts[i], texts[i + 1])

Rating(item) == IF "rating" \in DOMAIN item THEN item["rating"] ELSE 0

Priced(item) == "price_usd" \in DOMAIN item

\* The catalog positions of a result list.
Refs(rs) == [i \in DOMAIN rs |-> rs[i].ref]

\* The catalog positions of the results for which the page holds the call.
ShownWith(call) ==
  Refs(SelectSeq(displayed, LAMBDA d : d.call = call))

\* a is the beginning of b.
IsPrefix(a, b) == Len(a) <= Len(b) /\ a = SubSeq(b, 1, Len(a))

-----------------------------------------------------------------------------
(* Claims *)

\* C1: filter_results returns a sub-sequence of its input (same results, same
\* order) in which every item meets each set constraint: price_usd <=
\* budget_max, category equal to a requested one, a lower-cased color in
\* common; a result that meets them with a price equal to the budget is kept.
C1_FilterSound ==
  (mode = "filter" /\ done) =>
     /\ IsSubsequence(filtered, results)
     /\ \A i \in DOMAIN filtered : Meets(filtered[i].item, constraints)
     /\ \A i \in DOMAIN results :
          ( /\ ~IsNone(constraints.budget_max)
            /\ Priced(results[i].item)
            /\ results[i].item["price_usd"] = Val(constraints.budget_max)
            /\ Meets(results[i].item, constraints) )
          => results[i] \in Range(filtered)

\* C1 happens: all three constraints set, some results dropped, and a kept
\* result priced exactly at the budget.
C1_Witness ==
  /\ mode = "filter" /\ done
  /\ ~IsNone(constraints.budget_max)
  /\ ~IsNone(constraints.colors)
  /\ ~IsNone(constraints.categories)
  /\ filtered # <<>>
  /\ Len(filtered) < Len(results)
  /\ \E i \in DOMAIN filtered :
       filtered[i].item["price_usd"] = Val(constraints.budget_max)

\* C2: search_catalog returns at most top_k results: none for top_k <= 0, the
\* first top_k of the sorted matches for top_k > 0.
C2_AtMostTopK ==
  (mode = "search" /\ done /\ raised = "") =>
     LET ranked == Ranked(_tokenize(query), Scanned)
     IN  IF top_k <= 0 \/ _tokenize(query) = <<>> THEN results = <<>>
         ELSE /\ Len(results) <= top_k
              /\ results = SubSeq(ranked, 1, IF top_k < Len(ranked) THEN top_k
                                             ELSE Len(ranked))

\* C3: a result's score is the number of distinct query tokens among the
\* item's searchable tokens plus half the number of distinct query tokens
\* among its title tokens (scores are in half points).
C3_ScoreDistinct ==
  (mode = "search" /\ done) =>
     \A i \in DOMAIN results :
        LET q == Range(_tokenize(query))
            item == results[i].item
            title == IF "title" \in DOMAIN item
                     THEN Range(_tokenize(item["title"])) ELSE {}
        IN  results[i].score =
              2 * Cardinality(q \cap SearchableTokens(item))
              + Cardinality(q \cap title)

\* C4: of two returned results the earlier has the higher score, or the same
\* score and the higher rating (none counts as 0), or the same of both and
\* the lower price, an item without price_usd behind every priced one.
C4_Ordered ==
  (mode = "search" /\ done) =>
     \A i, j \in DOMAIN results :
        i < j =>
          LET A == results[i]
              B == results[j]
          IN  /\ A.score >= B.score
              /\ A.score = B.score => Rating(A.item) >= Rating(B.item)
              /\ (A.score = B.score /\ Rating(A.item) = Rating(B.item)) =>
                    /\ Priced(B.item) => Priced(A.item)
                    /\ (Priced(A.item) /\ Priced(B.item)) =>
                          A.item["price_usd"] <= B.item["price_usd"]

\* C4 happens: three results tie on score and rating, the cheaper before the
\* dearer before the one without a price.
C4_Witness ==
  /\ mode = "search" /\ done
  /\ top_k = 3
  /\ Len(results) = 3
  /\ results[1].score = results[3].score
  /\ Rating(results[1].item) = Rating(results[3].item)
  /\ Priced(results[1].item) /\ Priced(results[2].item)
  /\ results[1].item["price_usd"] < results[2].item["price_usd"]
  /\ ~Priced(results[3].item)

\* C5: every returned result's matched_terms is non-empty, strictly ascending
\* (so sorted and duplicate-free) and holds exactly the query tokens among the
\* item's searchable tokens; only items with a matching token are returned,
\* and all of them when top_k does not cut the list.
C5_MatchedTerms ==
  (mode = "search" /\ done /\ raised = "") =>
     LET q == Range(_tokenize(query))
         matching == {i \in DOMAIN Scanned : q \cap SearchableTokens(Scanned[i]) # {}}
     IN  /\ \A i \in DOMAIN results :
              /\ results[i].matched_terms # <<>>
              /\ StrictlyAscending(results[i].matched_terms)
              /\ Range(results[i].matched_terms)
                   = q \cap SearchableTokens(results[i].item)
              /\ results[i].item = Scanned[results[i].ref]
         /\ {results[i].ref : i \in DOMAIN results} \subseteq matching
         /\ top_k >= Len(Scanned) =>
              {results[i].ref : i \in DOMAIN results} = matching

\* C5 happens: a query with a repeated token and another, a result that
\* matches two of its distinct tokens, and an item left out for matching none.
C5_Witness ==
  /\ mode = "search" /\ done /\ raised = ""
  /\ Len(_tokenize(query)) > Cardinality(Range(_tokenize(query)))
  /\ \E i \in DOMAIN results : Len(results[i].matched_terms) = 2
  /\ top_k >= Len(Scanned)
  /\ Len(results) < Len(Scanned)

\* C6: for a query without tokens search_catalog returns an empty list and
\* does not fail, with or without a catalog argument and whatever the state
\* of the external source, and returns before any access to the catalog.
C6_EmptyQueryNeverFails ==
  (mode = "search" /\ done /\ _tokenize(query) = <<>>) =>
     /\ raised = ""
     /\ results = <<>>
     /\ ~loaded

\* The leftmost phrase of a budget pattern in q: its start, 0 when none.
FirstPhrase(pat, q) ==
  LET starts == {i \in 1..Len(q) : PatEnd(pat, q, i) # 0}
  IN  IF starts = {} THEN 0 ELSE CHOOSE s \in starts : \A t \in starts : s <= t

\* The number of the phrase of pattern pat that starts at i.
PhraseNumber(pat, q, i) ==
  LET runs == Findall(SubSeq(q, i, PatEnd(pat, q, i) - 1), DigitChars)
  IN  ToNumber(runs[Len(runs)])

\* C7: budget_max is the number of the leftmost "(under|below|less than)
\* [$]digits" phrase when there is one, wherever a "[$]digits (max|maximum|or
\* less)" phrase stands; else the number of the leftmost such phrase; else
\* unset.  It is the number of one phrase.
C7_PatternOrder ==
  (mode = "parse" /\ done) =>
     LET q == Lower(query)
         b == FirstPhrase("before", q)
         a == FirstPhrase("after", q)
     IN  constraints.budget_max =
           IF b # 0 THEN Some(PhraseNumber("before", q, b))
           ELSE IF a # 0 THEN Some(PhraseNumber("after", q, a))
           ELSE None

\* C7 happens: a "max" phrase stands before an "under" phrase with another
\* number, and budget_max is the latter's.
C7_Witness ==
  /\ mode = "parse" /\ done
  /\ LET q == Lower(query)
         b == FirstPhrase("before", q)
         a == FirstPhrase("after", q)
     IN  /\ a # 0 /\ b # 0 /\ a < b
         /\ PhraseNumber("after", q, a) # PhraseNumber("before", q, b)
         /\ constraints.budget_max = Some(PhraseNumber("before", q, b))

\* The list is exactly the set S in strictly ascending order, unset when S is
\* empty.
IsSortedListOf(o, S) ==
  IF S = {} THEN IsNone(o)
  ELSE /\ ~IsNone(o)
       /\ Range(Val(o)) = S
       /\ StrictlyAscending(Val(o))

\* C8: colors is the sorted duplicate-free list of the known colors that are
\* substrings of the lower-cased query, categories that of the labels whose
\* keyword is one; each is unset, never empty, when nothing matched.  The
\* example query gives 150.0, a list with "dress", and no colors.
C8_ColorsAndCategories ==
  (mode = "parse" /\ done) =>
     LET q == Lower(query)
         colors == {known_colors[k] : k \in {k \in DOMAIN known_colors :
                      \E i \in 1..Len(q) :
                        /\ i + Len(known_colors[k]) - 1 <= Len(q)
                        /\ \A d \in 1..Len(known_colors[k]) :
                             q[i + d - 1] = known_colors[k][d]}}
         labels == {category_map[k][2] : k \in {k \in DOMAIN category_map :
                      \E i \in 1..Len(q) :
                        /\ i + Len(category_map[k][1]) - 1 <= Len(q)
                        /\ \A d \in 1..Len(category_map[k][1]) :
                             q[i + d - 1] = category_map[k][1][d]}}
     IN  /\ IsSortedListOf(constraints.colors, colors)
         /\ IsSortedListOf(constraints.categories, labels)
         /\ query = ExampleQuery =>
              /\ constraints.budget_max = Some(150)
              /\ ~IsNone(constraints.categories)
              /\ <<"d", "r", "e", "s", "s">> \in Range(Val(constraints.categories))
              /\ IsNone(constraints.colors)

\* C8 happens: a query with two colors, one inside the other's name, and a
\* category keyword.
C8_Witness ==
  /\ mode = "parse" /\ done
  /\ ~IsNone(constraints.colors)
  /\ Len(Val(constraints.colors)) = 2
  /\ Val(constraints.colors)[2] = <<"l", "i", "g", "h", "t", " ", "b", "l", "u", "e">>
  /\ ~IsNone(constraints.categories)

\* C9: with budget_max, colors and categories all unset filter_results
\* returns its input, also for items without price_usd, category or colors.
C9_UnsetKeepsAll ==
  (mode = "filter" /\ done /\ constraints = NoConstraints) => filtered = results

\* C9 happens: unset constraints on a list with an item without price_usd and
\* an item without category and colors.
C9_Witness ==
  /\ mode = "filter" /\ done /\ constraints = NoConstraints
  /\ filtered = results
  /\ \E i \in DOMAIN results : ~Priced(results[i].item)
  /\ \E i \in DOMAIN results :
       /\ "category" \notin DOMAIN results[i].item
       /\ "colors" \notin DOMAIN results[i].item

\* C10: the handler cuts the ranking to top_k and then filters: the list it
\* displays is the results among the first top_k of the ranking that meet the
\* parsed constraints, in ranking order, no lower-ranked match moving up; the
\* notice shows exactly when that list is empty.  A handler that does not
\* raise makes every rendering call for every result of the list; one that
\* raises KeyError has made each call for a beginning of the list; one that
\* fails to load the catalog shows nothing.
C10_TruncateThenFilter ==
  (mode = "app" /\ done) =>
     IF source.status # "ok"
     THEN raised # "" /\ ~notice /\ displayed = <<>>
     ELSE LET ranked == Ranked(_tokenize(query), source.content)
              first == SubSeq(ranked, 1, IF top_k < Len(ranked) THEN top_k
                                         ELSE Len(ranked))
              c == parse_constraints(query)
              kept == SelectSeq(first, LAMBDA r : Meets(r.item, c))
          IN  /\ filtered = IF _tokenize(query) = <<>> THEN <<>> ELSE kept
              /\ notice <=> (filtered = <<>>)
              /\ \A n \in DOMAIN RenderCalls :
                   /\ IsPrefix(ShownWith(RenderCalls[n][1]), Refs(filtered))
                   /\ raised = "" =>
                        ShownWith(RenderCalls[n][1]) = Refs(filtered)

\* C10 happens: top_k results were ranked, one of them broke a constraint and
\* was removed, the others are rendered, and a match ranked below them that
\* meets the constraints is not.
C10_Witness ==
  /\ mode = "app" /\ done /\ raised = ""
  /\ Len(results) = top_k
  /\ ShownWith("markdown") # <<>>
  /\ Len(ShownWith("markdown")) < Len(results)
  /\ \E i \in DOMAIN source.content :
       /\ Range(_tokenize(query)) \cap SearchableTokens(source.content[i]) # {}
       /\ Meets(source.content[i], constraints)
       /\ \A k \in DOMAIN results : results[k].ref # i

====
